---- MODULE Spec2Model ----
(***************************************************************************)
(* PET BASIC 2.0/4.0 tokenizer (tokenize-4.0.py): the keyword table, the   *)
(* line tokenizer tokenize_line, the PRG builder create_prg and the        *)
(* command-line driver.                                                    *)
(*                                                                         *)
(* A character is represented by its code point, so a text is a sequence   *)
(* of code points and ord(c) is c.  A bytes value is a sequence of         *)
(* integers in 0..255.  Python indices are 0-based: text[i] in the source  *)
(* is text[i+1] here.                                                      *)
(***************************************************************************)
EXTENDS Integers, Sequences, FiniteSets, TLC

VARIABLES
    \* tokenize_line's locals, when it is run step by step
    line_text, i, in_quote, in_rem, result, tpc,
    \* create_prg's arguments and locals
    basic_lines, load_addr, prg, current_addr, done_lines, stderr, bpc,
    \* the __main__ block
    argc, lines, output_file, stdout, mpc

tokvars == <<line_text, i, in_quote, in_rem, result, tpc>>
prgvars == <<basic_lines, load_addr, prg, current_addr, done_lines, stderr, bpc>>
mainvars == <<argc, lines, output_file, stdout, mpc>>
vars == <<line_text, i, in_quote, in_rem, result, tpc,
          basic_lines, load_addr, prg, current_addr, done_lines, stderr, bpc,
          argc, lines, output_file, stdout, mpc>>

-----------------------------------------------------------------------------
(* Characters the source names.                                            *)

DQuote == 34
Space == 32
Dollar == 36
Percent == 37

\* The model's alphabet is ASCII plus two other characters: 233 (e acute,
\* a letter whose upper case is 201, with a one-byte code) and 8364 (the
\* euro sign, no letter, with a code above 255).

\* str.isalpha() on the characters of the model's alphabet.
isalpha(c) == c \in 65..90 \/ c \in 97..122 \/ c \in {201, 233}

\* str.isalnum()
isalnum(c) == isalpha(c) \/ c \in 48..57

\* upper1 as it would be if the match were case-sensitive.
upper1_CaseSensitive(c) == c

\* str.upper(), which works character by character: the upper case of one
\* character (one character, for every character of this alphabet).
upper1(c) ==
    IF c \in 97..122 THEN c - 32
    ELSE IF c = 233 THEN 201
    ELSE c

\* str.lower() of one character
lower1(c) ==
    IF c \in 65..90 THEN c + 32
    ELSE IF c = 201 THEN 233
    ELSE c

-----------------------------------------------------------------------------
(* The keyword table, in the dict's insertion order: <<spelling, code>>.   *)

TOKENS == <<
    << <<69, 78, 68>>, 128 >>,                            \* 'END': 0x80
    << <<70, 79, 82>>, 129 >>,                            \* 'FOR': 0x81
    << <<78, 69, 88, 84>>, 130 >>,                        \* 'NEXT': 0x82
    << <<68, 65, 84, 65>>, 131 >>,                        \* 'DATA': 0x83
    << <<73, 78, 80, 85, 84, 35>>, 132 >>,                \* 'INPUT#': 0x84
    << <<73, 78, 80, 85, 84>>, 133 >>,                    \* 'INPUT': 0x85
    << <<68, 73, 77>>, 134 >>,                            \* 'DIM': 0x86
    << <<82, 69, 65, 68>>, 135 >>,                        \* 'READ': 0x87
    << <<76, 69, 84>>, 136 >>,                            \* 'LET': 0x88
    << <<71, 79, 84, 79>>, 137 >>,                        \* 'GOTO': 0x89
    << <<82, 85, 78>>, 138 >>,                            \* 'RUN': 0x8A
    << <<73, 70>>, 139 >>,                                \* 'IF': 0x8B
    << <<82, 69, 83, 84, 79, 82, 69>>, 140 >>,            \* 'RESTORE': 0x8C
    << <<71, 79, 83, 85, 66>>, 141 >>,                    \* 'GOSUB': 0x8D
    << <<82, 69, 84, 85, 82, 78>>, 142 >>,                \* 'RETURN': 0x8E
    << <<82, 69, 77>>, 143 >>,                            \* 'REM': 0x8F
    << <<83, 84, 79, 80>>, 144 >>,                        \* 'STOP': 0x90
    << <<79, 78>>, 145 >>,                                \* 'ON': 0x91
    << <<87, 65, 73, 84>>, 146 >>,                        \* 'WAIT': 0x92
    << <<76, 79, 65, 68>>, 147 >>,                        \* 'LOAD': 0x93
    << <<83, 65, 86, 69>>, 148 >>,                        \* 'SAVE': 0x94
    << <<86, 69, 82, 73, 70, 89>>, 149 >>,                \* 'VERIFY': 0x95
    << <<68, 69, 70>>, 150 >>,                            \* 'DEF': 0x96
    << <<80, 79, 75, 69>>, 151 >>,                        \* 'POKE': 0x97
    << <<80, 82, 73, 78, 84, 35>>, 152 >>,                \* 'PRINT#': 0x98
    << <<80, 82, 73, 78, 84>>, 153 >>,                    \* 'PRINT': 0x99
    << <<67, 79, 78, 84>>, 154 >>,                        \* 'CONT': 0x9A
    << <<76, 73, 83, 84>>, 155 >>,                        \* 'LIST': 0x9B
    << <<67, 76, 82>>, 156 >>,                            \* 'CLR': 0x9C
    << <<67, 77, 68>>, 157 >>,                            \* 'CMD': 0x9D
    << <<83, 89, 83>>, 158 >>,                            \* 'SYS': 0x9E
    << <<79, 80, 69, 78>>, 159 >>,                        \* 'OPEN': 0x9F
    << <<67, 76, 79, 83, 69>>, 160 >>,                    \* 'CLOSE': 0xA0
    << <<71, 69, 84>>, 161 >>,                            \* 'GET': 0xA1
    << <<78, 69, 87>>, 162 >>,                            \* 'NEW': 0xA2
    << <<84, 65, 66, 40>>, 163 >>,                        \* 'TAB(': 0xA3
    << <<84, 79>>, 164 >>,                                \* 'TO': 0xA4
    << <<70, 78>>, 165 >>,                                \* 'FN': 0xA5
    << <<83, 80, 67, 40>>, 166 >>,                        \* 'SPC(': 0xA6
    << <<84, 72, 69, 78>>, 167 >>,                        \* 'THEN': 0xA7
    << <<78, 79, 84>>, 168 >>,                            \* 'NOT': 0xA8
    << <<83, 84, 69, 80>>, 169 >>,                        \* 'STEP': 0xA9
    << <<43>>, 170 >>,                                    \* '+': 0xAA
    << <<45>>, 171 >>,                                    \* '-': 0xAB
    << <<42>>, 172 >>,                                    \* '*': 0xAC
    << <<47>>, 173 >>,                                    \* '/': 0xAD
    << <<94>>, 174 >>,                                    \* '^': 0xAE
    << <<65, 78, 68>>, 175 >>,                            \* 'AND': 0xAF
    << <<79, 82>>, 176 >>,                                \* 'OR': 0xB0
    << <<62>>, 177 >>,                                    \* '>': 0xB1
    << <<61>>, 178 >>,                                    \* '=': 0xB2
    << <<60>>, 179 >>,                                    \* '<': 0xB3
    << <<83, 71, 78>>, 180 >>,                            \* 'SGN': 0xB4
    << <<73, 78, 84>>, 181 >>,                            \* 'INT': 0xB5
    << <<65, 66, 83>>, 182 >>,                            \* 'ABS': 0xB6
    << <<85, 83, 82>>, 183 >>,                            \* 'USR': 0xB7
    << <<70, 82, 69>>, 184 >>,                            \* 'FRE': 0xB8
    << <<80, 79, 83>>, 185 >>,                            \* 'POS': 0xB9
    << <<83, 81, 82>>, 186 >>,                            \* 'SQR': 0xBA
    << <<82, 78, 68>>, 187 >>,                            \* 'RND': 0xBB
    << <<76, 79, 71>>, 188 >>,                            \* 'LOG': 0xBC
    << <<69, 88, 80>>, 189 >>,                            \* 'EXP': 0xBD
    << <<67, 79, 83>>, 190 >>,                            \* 'COS': 0xBE
    << <<83, 73, 78>>, 191 >>,                            \* 'SIN': 0xBF
    << <<84, 65, 78>>, 192 >>,                            \* 'TAN': 0xC0
    << <<65, 84, 78>>, 193 >>,                            \* 'ATN': 0xC1
    << <<80, 69, 69, 75>>, 194 >>,                        \* 'PEEK': 0xC2
    << <<76, 69, 78>>, 195 >>,                            \* 'LEN': 0xC3
    << <<83, 84, 82, 36>>, 196 >>,                        \* 'STR$': 0xC4
    << <<86, 65, 76>>, 197 >>,                            \* 'VAL': 0xC5
    << <<65, 83, 67>>, 198 >>,                            \* 'ASC': 0xC6
    << <<67, 72, 82, 36>>, 199 >>,                        \* 'CHR$': 0xC7
    << <<76, 69, 70, 84, 36>>, 200 >>,                    \* 'LEFT$': 0xC8
    << <<82, 73, 71, 72, 84, 36>>, 201 >>,                \* 'RIGHT$': 0xC9
    << <<77, 73, 68, 36>>, 202 >>,                        \* 'MID$': 0xCA
    << <<67, 79, 78, 67, 65, 84>>, 204 >>,                \* 'CONCAT': 0xCC
    << <<68, 79, 80, 69, 78>>, 205 >>,                    \* 'DOPEN': 0xCD
    << <<68, 67, 76, 79, 83, 69>>, 206 >>,                \* 'DCLOSE': 0xCE
    << <<82, 69, 67, 79, 82, 68>>, 207 >>,                \* 'RECORD': 0xCF
    << <<72, 69, 65, 68, 69, 82>>, 208 >>,                \* 'HEADER': 0xD0
    << <<67, 79, 76, 76, 69, 67, 84>>, 209 >>,            \* 'COLLECT': 0xD1
    << <<66, 65, 67, 75, 85, 80>>, 210 >>,                \* 'BACKUP': 0xD2
    << <<67, 79, 80, 89>>, 211 >>,                        \* 'COPY': 0xD3
    << <<65, 80, 80, 69, 78, 68>>, 212 >>,                \* 'APPEND': 0xD4
    << <<68, 83, 65, 86, 69>>, 213 >>,                    \* 'DSAVE': 0xD5
    << <<68, 76, 79, 65, 68>>, 214 >>,                    \* 'DLOAD': 0xD6
    << <<67, 65, 84, 65, 76, 79, 71>>, 215 >>,            \* 'CATALOG': 0xD7
    << <<82, 69, 78, 65, 77, 69>>, 216 >>,                \* 'RENAME': 0xD8
    << <<83, 67, 82, 65, 84, 67, 72>>, 217 >>,            \* 'SCRATCH': 0xD9
    << <<68, 73, 82, 69, 67, 84, 79, 82, 89>>, 218 >>     \* 'DIRECTORY': 0xDA
>>

\* Python's < on two strings: lexicographic by code point.
RECURSIVE StrLess(_, _)
StrLess(a, b) ==
    IF b = <<>> THEN FALSE
    ELSE IF a = <<>> THEN TRUE
    ELSE IF a[1] # b[1] THEN a[1] < b[1]
    ELSE StrLess(Tail(a), Tail(b))

\* The sort key (-len(x[0]), x[0]) compared as Python compares tuples.
KeyLess(x, y) ==
    \/ -Len(x[1]) < -Len(y[1])
    \/ Len(x[1]) = Len(y[1]) /\ StrLess(x[1], y[1])

SORTED_TOKENS == SortSeq(TOKENS, KeyLess)

-----------------------------------------------------------------------------
(* tokenize_line.  Its locals are a frame [i, in_quote, in_rem, result,    *)
(* pc]; pc is "scan" while the loop runs, "done" once the function has     *)
(* returned bytes(result), "ValueError" once bytearray.append has raised.  *)

Frame0 == [i |-> 0, in_quote |-> FALSE, in_rem |-> FALSE, result |-> <<>>,
           pc |-> "scan"]

\* bytearray.append(v): ValueError unless 0 <= v < 256.
append(f, v) ==
    IF v \in 0..255
    THEN [f EXCEPT !.result = Append(@, v)]
    ELSE [f EXCEPT !.pc = "ValueError"]

\* line_text[i:i+len(token_name)].upper() == token_name.  A slice cut short
\* by the end of the text is shorter than token_name and differs from it;
\* otherwise the two are compared character by character.
Spelled(text, pos, name) ==
    /\ pos + Len(name) <= Len(text)
    /\ \A p \in 1..Len(name) : upper1(text[pos + p]) = name[p]

\* PartOfName as it would be without the word check.
PartOfName_NoCheck(text, pos, name) == FALSE

\* The word check: a token that starts with a letter is passed over when
\* the character after it is alphanumeric or one of '$%'.
PartOfName(text, pos, name) ==
    /\ isalpha(name[1])
    /\ pos + Len(name) < Len(text)
    /\ LET next_char == text[pos + Len(name) + 1]
       IN  isalnum(next_char) \/ next_char \in {Dollar, Percent}

\* The for loop over SORTED_TOKENS: the index of the first entry that is
\* spelled at pos and not passed over, 0 when the loop ends unmatched.
MatchIndex(text, pos) ==
    LET hits == {j \in 1..Len(SORTED_TOKENS) :
                    /\ Spelled(text, pos, SORTED_TOKENS[j][1])
                    /\ ~PartOfName(text, pos, SORTED_TOKENS[j][1])}
    IN  IF hits = {} THEN 0
        ELSE CHOOSE j \in hits : \A h \in hits : j <= h

\* SkipSpaces as it would be if the spaces after a token were kept.
SkipSpaces_Kept(text, pos) == pos

\* while i < len(line_text) and line_text[i] == ' ': i += 1
RECURSIVE SkipSpaces(_, _)
SkipSpaces(text, pos) ==
    IF pos < Len(text) /\ text[pos + 1] = Space
    THEN SkipSpaces(text, pos + 1)
    ELSE pos

\* QuoteBranch as it would be if a quote did not toggle in_quote.
QuoteBranch_NoToggle(text, f) == [append(f, text[f.i + 1]) EXCEPT !.i = f.i + 1]

\* if char == '"': toggle in_quote, copy the quote
QuoteBranch(text, f) ==
    [append(f, text[f.i + 1]) EXCEPT !.in_quote = ~f.in_quote, !.i = f.i + 1]

\* result.append(ord(char)); i += 1   (nothing advances when append raises)
CopyBranch(text, f) ==
    LET g == append(f, text[f.i + 1])
    IN  IF g.pc = "ValueError" THEN g ELSE [g EXCEPT !.i = f.i + 1]

\* MatchBranch as it would be if REM did not start a comment.
MatchBranch_NoRem(text, f) ==
    LET entry == SORTED_TOKENS[MatchIndex(text, f.i)]
    IN  [append(f, entry[2]) EXCEPT
            !.i = SkipSpaces(text, f.i + Len(entry[1]))]

\* A token matched: emit its code, pass it and the spaces after it, and
\* enter REM mode when it is REM.
MatchBranch(text, f) ==
    LET entry == SORTED_TOKENS[MatchIndex(text, f.i)]
        token_name == entry[1]
        token_value == entry[2]
    IN  [append(f, token_value) EXCEPT
            !.i = SkipSpaces(text, f.i + Len(token_name)),
            !.in_rem = f.in_rem \/ token_name = <<82, 69, 77>>]   \* 'REM'

\* One iteration of the while loop.
LoopBody(text, f) ==
    IF text[f.i + 1] = DQuote THEN QuoteBranch(text, f)
    ELSE IF f.in_quote \/ f.in_rem THEN CopyBranch(text, f)
    ELSE IF MatchIndex(text, f.i) # 0 THEN MatchBranch(text, f)
    ELSE CopyBranch(text, f)

RECURSIVE Scan(_, _)
Scan(text, f) ==
    IF f.pc # "scan" THEN f
    ELSE IF f.i < Len(text) THEN Scan(text, LoopBody(text, f))
    ELSE [f EXCEPT !.pc = "done"]

\* tokenize_line(line_text): the final frame; its result is the value
\* returned when pc = "done".
tokenize_line(text) == Scan(text, Frame0)

(* The same function run one loop iteration at a time on the variables.    *)

Frame == [i |-> i, in_quote |-> in_quote, in_rem |-> in_rem,
          result |-> result, pc |-> tpc]

Store(f) ==
    /\ i' = f.i
    /\ in_quote' = f.in_quote
    /\ in_rem' = f.in_rem
    /\ result' = f.result
    /\ tpc' = f.pc
    /\ UNCHANGED <<line_text, prgvars, mainvars>>

Scanning == tpc = "scan" /\ i < Len(line_text)

TokQuote ==
    /\ Scanning
    /\ line_text[i + 1] = DQuote
    /\ Store(QuoteBranch(line_text, Frame))

TokCopy ==
    /\ Scanning
    /\ line_text[i + 1] # DQuote
    /\ in_quote \/ in_rem
    /\ Store(CopyBranch(line_text, Frame))

TokMatch ==
    /\ Scanning
    /\ line_text[i + 1] # DQuote
    /\ ~(in_quote \/ in_rem)
    /\ MatchIndex(line_text, i) # 0
    /\ Store(MatchBranch(line_text, Frame))

TokNoMatch ==
    /\ Scanning
    /\ line_text[i + 1] # DQuote
    /\ ~(in_quote \/ in_rem)
    /\ MatchIndex(line_text, i) = 0
    /\ Store(CopyBranch(line_text, Frame))

TokReturn ==
    /\ tpc = "scan"
    /\ i >= Len(line_text)
    /\ Store([Frame EXCEPT !.pc = "done"])

TokNext == TokQuote \/ TokCopy \/ TokMatch \/ TokNoMatch \/ TokReturn

-----------------------------------------------------------------------------
(* create_prg.  bpc is "idle" before a call, "call" at entry, "loop"       *)
(* between iterations of the for loop, "done" once bytes(prg) has been     *)
(* returned, and the exception's name once one has left the function.      *)

DefaultLoadAddr == 1025

\* struct.pack('<H', n) and struct.pack_into('<H', ...) raise struct.error
\* unless 0 <= n <= 65535.
InUShort(n) == n \in 0..65535

\* pack_H as it would be with the bytes in big-endian order.
pack_H_BigEndian(n) == <<n \div 256, n % 256>>

\* struct.pack('<H', n)
pack_H(n) == <<n % 256, n \div 256>>

\* struct.pack_into('<H', buf, offset, n)
pack_into_H(buf, offset, n) ==
    [buf EXCEPT ![offset + 1] = n % 256, ![offset + 2] = n \div 256]

\* NextLinkAddr as it would be if the two load-address bytes of the file
\* were not subtracted.
NextLinkAddr_FileOffset(load, length) == load + length

\* next_link_addr = load_addr + len(prg) - 2
NextLinkAddr(load, length) == load + length - 2

\* The end-of-line marker appended after the tokenized content.
EndOfLine == <<0>>

\* The end-of-program marker.
EndOfProgram == <<0, 0>>

\* An exception leaves create_prg: its locals are gone and nothing is
\* returned.
Raise(name, err) ==
    /\ bpc' = name
    /\ prg' = <<>>
    /\ stderr' = err
    /\ UNCHANGED <<basic_lines, load_addr, current_addr, done_lines>>

CreatePrgEnter ==
    /\ bpc = "call"
    /\ IF InUShort(load_addr)
       THEN /\ prg' = pack_H(load_addr)
            /\ current_addr' = load_addr
            /\ bpc' = "loop"
            /\ UNCHANGED <<basic_lines, load_addr, done_lines, stderr>>
       ELSE Raise("struct.error", stderr)
    /\ UNCHANGED <<tokvars, mainvars>>

\* One iteration of "for line_num, line_text in basic_lines".
CreatePrgLine ==
    /\ bpc = "loop"
    /\ done_lines < Len(basic_lines)
    /\ LET line_num == basic_lines[done_lines + 1][1]
           text == basic_lines[done_lines + 1][2]
           line_start_offset == Len(prg)
           tokenized == tokenize_line(text)
           record == prg \o <<0, 0>> \o pack_H(line_num) \o tokenized.result
                         \o EndOfLine
           next_link_addr == NextLinkAddr(load_addr, Len(record))
           debug1 == IF line_num <= 50
                     THEN <<<<line_num, line_start_offset>>>> ELSE <<>>
           debug2 == IF line_num <= 50
                     THEN <<<<Len(record), next_link_addr>>>> ELSE <<>>
       IN  IF ~InUShort(line_num)
           THEN Raise("struct.error", stderr \o debug1)
           ELSE IF tokenized.pc = "ValueError"
           THEN Raise("ValueError", stderr \o debug1)
           ELSE IF ~InUShort(next_link_addr)
           THEN Raise("struct.error", stderr \o debug1 \o debug2)
           ELSE /\ prg' = pack_into_H(record, line_start_offset,
                                      next_link_addr)
                /\ done_lines' = done_lines + 1
                /\ stderr' = stderr \o debug1 \o debug2
                /\ UNCHANGED <<basic_lines, load_addr, current_addr, bpc>>
    /\ UNCHANGED <<tokvars, mainvars>>

CreatePrgReturn ==
    /\ bpc = "loop"
    /\ done_lines = Len(basic_lines)
    /\ prg' = prg \o EndOfProgram
    /\ bpc' = "done"
    /\ UNCHANGED <<basic_lines, load_addr, current_addr, done_lines, stderr>>
    /\ UNCHANGED <<tokvars, mainvars>>

-----------------------------------------------------------------------------
(* The __main__ block.  mpc is "start", "parsed" (parse_basic_file has     *)
(* returned), "create_prg" (inside the call), "exit0" (the file is         *)
(* written), "exit1" (sys.exit(1)), "traceback" (an uncaught exception),   *)
(* or "none" when create_prg is called on its own.                         *)

NoFile == [written |-> FALSE, data |-> <<>>]

MainUsage ==
    /\ mpc = "start"
    /\ argc # 3
    /\ stdout' = Append(stdout, "Usage: tokenize.py input.bas output.prg")
    /\ mpc' = "exit1"
    /\ UNCHANGED <<argc, lines, output_file, tokvars, prgvars>>

MainNoLines ==
    /\ mpc = "parsed"
    /\ lines = <<>>
    /\ stdout' = Append(stdout, "No BASIC lines found in input file")
    /\ mpc' = "exit1"
    /\ UNCHANGED <<argc, lines, output_file, tokvars, prgvars>>

\* MainCreate as it would be without the "if not lines" check before it.
MainCreate_Unchecked ==
    /\ mpc = "parsed"
    /\ basic_lines' = lines
    /\ load_addr' = DefaultLoadAddr
    /\ bpc' = "call"
    /\ mpc' = "create_prg"
    /\ UNCHANGED <<prg, current_addr, done_lines, stderr>>
    /\ UNCHANGED <<argc, lines, output_file, stdout, tokvars>>

\* prg_data = create_prg(lines): the call, with the default load address.
MainCreate ==
    /\ mpc = "parsed"
    /\ lines # <<>>
    /\ basic_lines' = lines
    /\ load_addr' = DefaultLoadAddr
    /\ bpc' = "call"
    /\ mpc' = "create_prg"
    /\ UNCHANGED <<prg, current_addr, done_lines, stderr>>
    /\ UNCHANGED <<argc, lines, output_file, stdout, tokvars>>

MainWrite ==
    /\ mpc = "create_prg"
    /\ bpc = "done"
    /\ output_file' = [written |-> TRUE, data |-> prg]
    /\ stdout' = Append(stdout, "Created")
    /\ mpc' = "exit0"
    /\ UNCHANGED <<argc, lines, tokvars, prgvars>>

MainTraceback ==
    /\ mpc = "create_prg"
    /\ bpc \in {"struct.error", "ValueError"}
    /\ mpc' = "traceback"
    /\ UNCHANGED <<argc, lines, output_file, stdout, tokvars, prgvars>>

-----------------------------------------------------------------------------
(* Inputs.                                                                 *)

MaxLines == 3
MaxSuffixLen == 2
MaxFragments == 3

\* All sequences over S of length at most n.
SeqsUpTo(S, n) == UNION {[1..m -> S] : m \in 0..n}

RECURSIVE Concat(_)
Concat(ss) == IF ss = <<>> THEN <<>> ELSE Head(ss) \o Concat(Tail(ss))

\* The (line_num, line_text) pairs the builder is given.
LinePool == {
    <<10, <<80, 82, 73, 78, 84, 32, 34, 72, 69, 76, 76, 79, 34>>>>,   \* 10 PRINT "HELLO"
    <<20, <<71, 79, 84, 79, 32, 49, 48>>>>,   \* 20 GOTO 10
    <<5, <<>>>>,   \* 5 with empty statement text
    <<60, <<88, 61, 49>>>>,   \* 60 X=1
    <<70000, <<65>>>>,   \* a line number beyond 16 bits
    <<30, <<34, 8364>>>>   \* 30 "(euro sign)
}

CallLines == SeqsUpTo(LinePool, MaxLines)

\* The default, the lowest address, and one near the top of memory.
LoadAddrs == {DefaultLoadAddr, 0, 65520}

ParsedLines == SeqsUpTo({l \in LinePool : l[2] # <<>>}, MaxLines)

KeywordNames == {TOKENS[j][1] : j \in 1..Len(TOKENS)}

\* "Word" keywords start with a letter; the others are symbol keywords.
WordKeywords == {k \in KeywordNames : isalpha(k[1])}

\* Every spelling of k in upper and lower case letters.
RECURSIVE CaseVariants(_)
CaseVariants(k) ==
    IF k = <<>> THEN {<<>>}
    ELSE {<<c>> \o t : c \in {k[1], lower1(k[1])}, t \in CaseVariants(Tail(k))}

BareKeywords == UNION {CaseVariants(k) : k \in KeywordNames}

\* Suffix characters: N 1 $ % =
SuffixChars == {78, 49, 36, 37, 61}

\* Suffixes whose first character is alphanumeric or '$' or '%'.
Suffixes ==
    {s \in SeqsUpTo(SuffixChars, MaxSuffixLen) :
        s # <<>> /\ (isalnum(s[1]) \/ s[1] \in {Dollar, Percent})}

KeywordThenSuffix == {k \o s : k \in WordKeywords, s \in Suffixes}

\* Pieces of statement text: PRINT, REM, INPUT#, TO, a quote, a space, A,
\* 1, e acute and the euro sign.
Fragments == {
    <<80, 82, 73, 78, 84>>,
    <<82, 69, 77>>,
    <<73, 78, 80, 85, 84, 35>>,
    <<84, 79>>,
    <<34>>, <<32>>, <<65>>, <<49>>, <<233>>, <<8364>>
}

Statements == {Concat(fs) : fs \in SeqsUpTo(Fragments, MaxFragments)}

\* Texts the specification names: TOTAL, PRINT#1,A and TAB(1).
Examples == {
    <<84, 79, 84, 65, 76>>,
    <<80, 82, 73, 78, 84, 35, 49, 44, 65>>,
    <<84, 65, 66, 40, 49, 41>>
}

TokInputs == BareKeywords \cup KeywordThenSuffix \cup Statements \cup Examples

ByteInputs == {t \in TokInputs : \A p \in 1..Len(t) : t[p] \in 0..255}

\* lines = parse_basic_file(input_file).  The file is the environment's:
\* the function returns any list of (int, text) pairs whose text is not
\* empty (a row without text after its number is skipped).
MainParse ==
    /\ mpc = "start"
    /\ argc = 3
    /\ lines' \in ParsedLines
    /\ mpc' = "parsed"
    /\ UNCHANGED <<argc, output_file, stdout, tokvars, prgvars>>

-----------------------------------------------------------------------------
(* Specifications.                                                         *)

TokIdle ==
    /\ line_text = <<>>
    /\ i = 0
    /\ in_quote = FALSE
    /\ in_rem = FALSE
    /\ result = <<>>
    /\ tpc = "idle"

PrgIdle ==
    /\ basic_lines = <<>>
    /\ load_addr = DefaultLoadAddr
    /\ prg = <<>>
    /\ current_addr = 0
    /\ done_lines = 0
    /\ stderr = <<>>
    /\ bpc = "idle"

MainIdle(pc) ==
    /\ argc \in {2, 3}
    /\ lines = <<>>
    /\ output_file = NoFile
    /\ stdout = <<>>
    /\ mpc = pc

\* The script is run from the command line.
InitMain == MainIdle("start") /\ PrgIdle /\ TokIdle

\* create_prg(basic_lines, load_addr) is called on its own.
InitCall ==
    /\ basic_lines \in CallLines
    /\ load_addr \in LoadAddrs
    /\ prg = <<>>
    /\ current_addr = 0
    /\ done_lines = 0
    /\ stderr = <<>>
    /\ bpc = "call"
    /\ argc = 3
    /\ lines = <<>>
    /\ output_file = NoFile
    /\ stdout = <<>>
    /\ mpc = "none"
    /\ TokIdle

Init == InitMain \/ InitCall

Next ==
    \/ MainUsage
    \/ MainParse
    \/ MainNoLines
    \/ MainCreate
    \/ MainWrite
    \/ MainTraceback
    \/ CreatePrgEnter
    \/ CreatePrgLine
    \/ CreatePrgReturn

Spec == Init /\ [][Next]_vars

\* tokenize_line(line_text) is called on its own and run step by step.
TokStart(inputs) ==
    /\ line_text \in inputs
    /\ i = Frame0.i
    /\ in_quote = Frame0.in_quote
    /\ in_rem = Frame0.in_rem
    /\ result = Frame0.result
    /\ tpc = Frame0.pc
    /\ PrgIdle
    /\ argc = 3
    /\ lines = <<>>
    /\ output_file = NoFile
    /\ stdout = <<>>
    /\ mpc = "none"

TokInit == TokStart(TokInputs)

TokSpec == TokInit /\ [][TokNext]_vars

\* The same calls on the texts whose characters all have a one-byte code.
TokByteInit == TokStart(ByteInputs)

TokByteSpec == TokByteInit /\ [][TokNext]_vars

-----------------------------------------------------------------------------
(* Properties of create_prg and of the __main__ block, checked under Spec. *)

\* The 16-bit little-endian value at file offset off of image.
U16At(image, off) == image[off + 1] + 256 * image[off + 2]

\* The memory address of file offset off: A maps to offset A - load_addr + 2.
AddrOf(off) == load_addr + off - 2

\* The length of a line's record: link, line number, content, terminator.
RecLen(line) == 5 + Len(tokenize_line(line[2]).result)

\* The file offset at which the j-th record starts (the sentinel is the
\* record after the last line).
RECURSIVE RecOffset(_, _)
RecOffset(ls, j) ==
    IF j = 1 THEN 2 ELSE RecOffset(ls, j - 1) + RecLen(ls[j - 1])

\* The address reached from addr by following n links, -1 when a link
\* leads outside the image.
RECURSIVE Follow(_, _, _)
Follow(image, addr, n) ==
    IF n = 0 THEN addr
    ELSE LET off == addr - load_addr + 2
         IN  IF off \in 0..(Len(image) - 2)
             THEN Follow(image, U16At(image, off), n - 1)
             ELSE -1

Returned == bpc = "done" /\ basic_lines # <<>>

\* C1: in an image create_prg returns for N >= 1 lines, n hops from
\* load_addr reach the (n+1)-th record, whose link is the address of the
\* next record's link field (of the sentinel, for the last line), is
\* greater than the record's own address and lies inside the image; N hops
\* reach the sentinel, which holds 0.
C1_LinkChain ==
    Returned =>
        LET N == Len(basic_lines)
        IN  /\ \A n \in 0..(N - 1) :
                 LET a == Follow(prg, load_addr, n)
                 IN  /\ a = AddrOf(RecOffset(basic_lines, n + 1))
                     /\ LET link == U16At(prg, a - load_addr + 2)
                        IN  /\ link = AddrOf(RecOffset(basic_lines, n + 2))
                            /\ link > a
                            /\ link # 0
                            /\ (link - load_addr + 2) \in 2..(Len(prg) - 2)
            /\ Follow(prg, load_addr, N) = AddrOf(Len(prg) - 2)
            /\ U16At(prg, Len(prg) - 2) = 0

\* An image of two or more lines loaded near the top of memory.
C1_Witness ==
    Returned /\ Len(basic_lines) >= 2 /\ load_addr = 65520

Scenario == <<
    <<10, <<80, 82, 73, 78, 84, 32, 34, 72, 69, 76, 76, 79, 34>>>>,
    <<20, <<71, 79, 84, 79, 32, 49, 48>>>>
>>

ScenarioBuilt ==
    bpc = "done" /\ basic_lines = Scenario /\ load_addr = DefaultLoadAddr

\* C2 as stated: the scenario's image has load-address bytes 01 04, line
\* 10's line number 0A 00 followed by the body 99 20 22 48 45 4C 4C 4F 22
\* 00, a link to the address right after that record, 0x89 in line 20's
\* record and the sentinel 00 00.
C2_AsStated ==
    ScenarioBuilt =>
        /\ Len(prg) >= 18
        /\ SubSeq(prg, 1, 2) = <<1, 4>>
        /\ SubSeq(prg, 5, 6) = <<10, 0>>
        /\ SubSeq(prg, 7, 16) = <<153, 32, 34, 72, 69, 76, 76, 79, 34, 0>>
        /\ U16At(prg, 2) = AddrOf(16)
        /\ \E p \in 17..Len(prg) : prg[p] = 137
        /\ SubSeq(prg, Len(prg) - 1, Len(prg)) = <<0, 0>>

\* C2, amended: the space after PRINT (and after GOTO) is dropped, so the
\* image is 01 04 | 0E 04 0A 00 99 22 48 45 4C 4C 4F 22 00 | 16 04 14 00
\* 89 31 30 00 | 00 00.
C2_Scenario ==
    ScenarioBuilt =>
        prg = <<1, 4,
                14, 4, 10, 0, 153, 34, 72, 69, 76, 76, 79, 34, 0,
                22, 4, 20, 0, 137, 49, 48, 0,
                0, 0>>

C2_Witness == ScenarioBuilt /\ Len(prg) = 25

\* C7 as stated: create_prg returns no image for an empty sequence of
\* lines, and no output file is written for one.
C7_AsStated ==
    /\ basic_lines = <<>> => bpc # "done"
    /\ output_file.written => lines # <<>>

\* C7, amended: the empty input is refused by the __main__ block, which
\* prints "No BASIC lines found in input file" and exits with status 1
\* without calling create_prg and without writing a file; create_prg
\* itself, given no lines, returns the load address followed by 00 00.
C7_EmptyInput ==
    /\ (mpc # "none" /\ lines = <<>>) =>
          /\ mpc \in {"start", "parsed", "exit1"}
          /\ bpc = "idle"
          /\ output_file = NoFile
    /\ (mpc = "exit1" /\ argc = 3) =>
          /\ lines = <<>>
          /\ stdout = <<"No BASIC lines found in input file">>
    /\ (bpc = "done" /\ basic_lines = <<>>) =>
          /\ mpc = "none"
          /\ prg = <<load_addr % 256, load_addr \div 256, 0, 0>>

\* The driver has refused an empty input.
C7_Witness ==
    /\ mpc = "exit1"
    /\ argc = 3
    /\ lines = <<>>
    /\ output_file = NoFile

\* C9: the returned image is the load address in two little-endian bytes,
\* one record per line in input order (two link bytes, the line number in
\* two little-endian bytes, tokenize_line's bytes, one zero byte), and the
\* two zero bytes of the sentinel; its length is 2 + the sum of (5 + the
\* tokenized length) + 2.
C9_Layout ==
    Returned =>
        LET N == Len(basic_lines)
            end == RecOffset(basic_lines, N + 1)
        IN  /\ Len(prg) = end + 2
            /\ SubSeq(prg, 1, 2) = <<load_addr % 256, load_addr \div 256>>
            /\ \A j \in 1..N :
                 LET off == RecOffset(basic_lines, j)
                     line_num == basic_lines[j][1]
                     tokenized == tokenize_line(basic_lines[j][2]).result
                 IN  /\ SubSeq(prg, off + 3, off + 4)
                            = <<line_num % 256, line_num \div 256>>
                     /\ SubSeq(prg, off + 5, off + 4 + Len(tokenized))
                            = tokenized
                     /\ prg[off + 5 + Len(tokenized)] = 0
                     /\ RecOffset(basic_lines, j + 1)
                            = off + 5 + Len(tokenized)
            /\ SubSeq(prg, end + 1, end + 2) = <<0, 0>>

\* An image holding a line with empty text (a 5-byte record) and two lines
\* that are not in line-number order.
C9_Witness ==
    /\ Returned
    /\ \E j \in 1..Len(basic_lines) :
          basic_lines[j][2] = <<>> /\ RecLen(basic_lines[j]) = 5
    /\ \E j \in 1..(Len(basic_lines) - 1) :
          basic_lines[j][1] > basic_lines[j + 1][1]

-----------------------------------------------------------------------------
(* Properties of tokenize_line, checked under TokSpec and TokByteSpec.     *)

REM == <<82, 69, 77>>

\* The code the table assigns to spelling k.
CodeOf(k) == TOKENS[CHOOSE j \in 1..Len(TOKENS) : TOKENS[j][1] = k][2]

\* t is k written in some mix of upper and lower case.
IsCaseOf(t, k) ==
    /\ Len(t) = Len(k)
    /\ \A p \in 1..Len(k) : t[p] \in {k[p], lower1(k[p])}

\* Position pos (0-based) of text lies in a quoted span: it holds a quote,
\* or an odd number of quotes precede it.
QuotedAt(text, pos) ==
    \/ text[pos + 1] = DQuote
    \/ Cardinality({q \in 1..pos : text[q] = DQuote}) % 2 = 1

\* line_text is word keyword k followed by one of the suffixes.
KeywordAndSuffix(k) ==
    /\ Len(line_text) > Len(k)
    /\ SubSeq(line_text, 1, Len(k)) = k
    /\ SubSeq(line_text, Len(k) + 1, Len(line_text)) \in Suffixes

C5_AsStated ==
    (tpc = "done" /\ in_rem) =>
        \E p \in 0..(Len(line_text) - 3) :
            /\ Spelled(line_text, p, REM)
            /\ LET rest == SubSeq(line_text, p + 4, Len(line_text))
               IN  /\ Len(result) > Len(rest)
                   /\ SubSeq(result, Len(result) - Len(rest), Len(result))
                          = <<143>> \o rest

\* C5, amended: the step that emits the REM token passes the REM spelling
\* and the run of spaces right after it, which is dropped, and enters REM
\* mode; from then on every step copies the character it is on as one byte
\* and moves on by one (a character above 255 raises ValueError instead).
C5_RemCopied ==
    [][/\ (Spelled(line_text, i, REM) /\ result' = Append(result, 143)) =>
            /\ in_rem'
            /\ i' >= i + 3
            /\ \A q \in (i + 3)..(i' - 1) : line_text[q + 1] = Space
            /\ i' < Len(line_text) => line_text[i' + 1] # Space
       /\ (in_rem /\ tpc = "scan" /\ i < Len(line_text)) =>
            /\ in_rem'
            /\ IF line_text[i + 1] \in 0..255
               THEN /\ result' = Append(result, line_text[i + 1])
                    /\ i' = i + 1
                    /\ tpc' = "scan"
               ELSE /\ result' = result
                    /\ tpc' = "ValueError"]_vars

\* "REM PRINT" came back as the REM token and the letters of PRINT.
C5_Witness ==
    /\ tpc = "done"
    /\ in_rem
    /\ line_text = <<82, 69, 77, 32, 80, 82, 73, 78, 84>>
    /\ result = <<143, 80, 82, 73, 78, 84>>

\* C6: a keyword on its own, in any letter case, comes back as the one byte
\* the table assigns to it.
C6_BareKeyword ==
    \A j \in 1..Len(TOKENS) :
        IsCaseOf(line_text, TOKENS[j][1]) =>
            /\ tpc # "ValueError"
            /\ tpc = "done" => result = <<TOKENS[j][2]>>

\* input# in lower case came back as the INPUT# token.
C6_Witness ==
    /\ tpc = "done"
    /\ line_text = <<105, 110, 112, 117, 116, 35>>
    /\ result = <<132>>

\* C8: tokenize_line never fails on content.
C8_NeverFails == tpc # "ValueError"

\* The keyword spellings found at position pos of text.
SpelledAt(text, pos) == {k \in KeywordNames : Spelled(text, pos, k)}

\* C10: outside quotes and comments, a token code emitted at a position is
\* the code of the longest keyword spelled there.
C10_LongestMatch ==
    [][(/\ tpc = "scan"
        /\ i < Len(line_text)
        /\ ~in_quote
        /\ ~in_rem
        /\ SpelledAt(line_text, i) # {}
        /\ Len(result') = Len(result) + 1
        /\ result'[Len(result')] # line_text[i + 1]) =>
           \E k \in SpelledAt(line_text, i) :
               /\ \A other \in SpelledAt(line_text, i) : Len(other) <= Len(k)
               /\ result' = Append(result, CodeOf(k))]_vars

====
